---- MODULE Spec2Model ----
(***************************************************************************)
(* The update coordinator of the Open Inverter Gateway integration:        *)
(* OpenInverterDataUpdateCoordinator (coordinator.py).  One coordinator,   *)
(* its polling interval with exponential backoff, its cache of the last    *)
(* valid reading, and the persistence store.                               *)
(*                                                                         *)
(* Intervals are whole seconds (timedelta(seconds = n)).  A point in time  *)
(* is an aware datetime: an instant and the UTC offset it is expressed in; *)
(* both are counted in clock units of which DayLen make a calendar day.    *)
(* An optional value (Python None or a value) is a sequence of length 0    *)
(* or 1.  A reading (a decoded JSON object) is a function from its keys    *)
(* to numbers; a JSON value is a reading or a number, tagged.  A string is  *)
(* its length and, where it is an ISO date, its wall-clock time and offset.*)
(*                                                                         *)
(* The coordinator is used either directly (its methods are called, as     *)
(* tests/test_coordinator.py does) or by the integration (__init__.py:     *)
(* async_setup_entry, async_unload_entry).  The config flow                *)
(* (config_flow.py) creates and reconfigures the entries of the domain.    *)
(* The actions carry no more guards than the code and the bounds give; who *)
(* calls, and whether a caller awaits a call before the next, is said by   *)
(* the specifications.                                                     *)
(***************************************************************************)
EXTENDS Integers, Sequences, FiniteSets, TLC

\* ------------------------------------------------------------------ bounds

\* Consecutive failed refreshes followed by the model.
MaxFails == 2

\* The clock runs over the instants 0..MaxTime.
MaxTime == 2

\* Clock units per calendar day.
DayLen == 2

\* Calls of async_shutdown on one coordinator followed by the model.
MaxShutdowns == 2

\* Config entries of the domain followed by the model.
MaxEntries == 2

\* ------------------------------------------------------- program constants

\* timedelta(minutes=5), in seconds: the ceiling of the backoff.
Ceiling == 300

\* const.py DAILY_SENSORS
DAILY_SENSORS ==
  { "TodayGenerateEnergy", "PV1EnergyToday", "PV2EnergyToday", "EnergyToUserToday",
    "EnergyToGridToday", "DischargeEnergyToday", "ChargeEnergyToday" }

\* const.py 15: DEFAULT_SCAN_INTERVAL, seconds.
DEFAULT_SCAN_INTERVAL == 60

\* ------------------------------------------------------------------ inputs

\* Scan intervals (seconds) an entry can carry: cv.positive_int has no upper
\* limit, so values above the ceiling are configurable.
ScanIntervals == {10, 240, 400}

\* Keys and values the device reports: one daily accumulator, one instantaneous.
Keys == {"TodayGenerateEnergy", "InputPower"}

Values == {5}

\* The JSON objects the device can answer with: the empty object and one with
\* every key.
Readings == UNION { [ks -> Values] : ks \in {{}, Keys} }

\* UTC offsets of the local time zone.
Offsets == {0, 1}

\* What makes a fetch fail: timeout, aiohttp.ClientError (connection, non-2xx
\* through raise_for_status), and a decoded payload that is not a dict.
FetchErrors == {"timeout", "client_error", "not_a_dict"}

\* IP addresses a user can enter in a flow.
IpAddresses == {"10.0.0.1", "10.0.0.2", "10.0.0.3"}

\* A JSON number that is stored where a reading is expected.
BadNumber == 7

\* The characters of a JSON string and the elements of a JSON array that are
\* stored where a reading is expected.
BadString == << "o", "k" >>

BadArray == << "InputPower" >>

None == << >>

Some(x) == << x >>

\* JSON values as json.loads hands them over: an object (a dict), a number, a
\* boolean, a string (its characters) and an array (a list, its elements).
Obj(r) == [kind |-> "object", map |-> r, num |-> 0, items |-> << >>]

Num(n) == [kind |-> "number", map |-> << >>, num |-> n, items |-> << >>]

Bool(b) == [kind |-> "boolean", map |-> << >>, num |-> IF b THEN 1 ELSE 0, items |-> << >>]

Str(cs) == [kind |-> "string", map |-> << >>, num |-> 0, items |-> cs]

Array(xs) == [kind |-> "array", map |-> << >>, num |-> 0, items |-> xs]

\* ---------------------------------------------------------- pure functions

\* datetime.date() of an aware datetime: the calendar date in its own offset.
DateOf(t) == (t.inst + t.off) \div DayLen

\* datetime.isoformat(): wall-clock time followed by the UTC offset.
IsoFormat(t) == [wall |-> t.inst + t.off, off |-> t.off, iso |-> TRUE, len |-> 25]

\* A string that is no ISO date.
NotADate == [wall |-> 0, off |-> 0, iso |-> FALSE, len |-> 3]

\* The empty string.
EmptyString == [wall |-> 0, off |-> 0, iso |-> FALSE, len |-> 0]

\* Python truthiness of a string.
TruthyString(s) == s.len > 0

\* Mutant of ParseDatetime: the result is converted to UTC, the offset is lost.
ParseDatetimeToUtc(s) ==
  IF s.iso THEN Some([inst |-> s.wall - s.off, off |-> 0]) ELSE None

\* dt_util.parse_datetime of a string: an aware datetime in the string's offset,
\* or None when the string is no ISO date.
ParseDatetime(s) ==
  IF s.iso THEN Some([inst |-> s.wall - s.off, off |-> s.off]) ELSE None

\* Mutant of Truthy: tests "is not None" instead of truthiness.
TruthyNotNone(d) == d # None

\* Python truthiness of self._last_valid_data: None, the empty dict, 0, False,
\* the empty string and the empty list are falsy.
Truthy(d) ==
  /\ d # None
  /\ CASE d[1].kind = "object" -> DOMAIN d[1].map # {}
       [] d[1].kind \in {"number", "boolean"} -> d[1].num # 0
       [] OTHER -> Len(d[1].items) > 0

\* Python iteration "for k in v" over a dict, a string or a list, as a map with
\* the keys, the characters or the elements as its domain.
Iterated(v) ==
  IF v.kind = "object" THEN v.map ELSE [k \in { v.items[i] : i \in DOMAIN v.items } |-> 0]

\* Mutant of Backoff: the doubled interval is not capped.
BackoffNoCap(c) == IF c # 0 /\ c < Ceiling THEN c * 2 ELSE c

\* Mutant of Backoff: the guard "below the ceiling" is dropped, the cap is kept.
BackoffNoGuard(c) == IF c * 2 > Ceiling THEN Ceiling ELSE c * 2

\* coordinator.py 132-144: the new update_interval after a failure.
Backoff(c) ==
  IF c # 0 /\ c < Ceiling
    THEN (IF c * 2 > Ceiling THEN Ceiling ELSE c * 2)
    ELSE c

\* Mutant of CachedData: the whole cached reading is kept.
CachedDataKeepAll(r) == r

\* coordinator.py 154-161: daily sensors keep their value, the others are zeroed.
CachedData(r) == [k \in DOMAIN r |-> IF k \in DAILY_SENSORS THEN r[k] ELSE 0]

\* Mutant of ZeroData: the daily sensors escape the zeroing.
ZeroDataKeepDaily(r) == [k \in DOMAIN r |-> IF k \in DAILY_SENSORS THEN r[k] ELSE 0]

\* coordinator.py 171: every key zeroed.
ZeroData(r) == [k \in DOMAIN r |-> 0]

\* Mutant of FailureResult: a cache without a time counts as no cache.
FailureResultNeedsTime(d, t, n) ==
  IF Truthy(d) /\ t # None /\ DateOf(n) = DateOf(t[1])
    THEN (IF d[1].kind = "object"
            THEN [kind |-> "substitute", data |-> Some(CachedData(d[1].map))]
            ELSE [kind |-> "error", data |-> None])
    ELSE IF Truthy(d) /\ t # None
      THEN (IF d[1].kind \in {"object", "string", "array"}
              THEN [kind |-> "zero", data |-> Some(ZeroData(Iterated(d[1])))]
              ELSE [kind |-> "error", data |-> None])
      ELSE [kind |-> "raise", data |-> None]

\* coordinator.py 147-180: what the failure path hands back, given the cache and now.
\* kind is "substitute" (scenario 1), "zero" (scenario 2), "raise" (UpdateFailed)
\* or "error": an exception raised inside the except branch.  A cached value
\* that is no dict has no .items(), so that line 154 raises AttributeError; a
\* number or a boolean cannot be iterated, so that line 171 raises TypeError,
\* while a string or a list is iterated and gives a map of its characters or
\* elements.
FailureResult(d, t, n) ==
  IF Truthy(d) /\ t # None /\ DateOf(n) = DateOf(t[1])
    THEN (IF d[1].kind = "object"
            THEN [kind |-> "substitute", data |-> Some(CachedData(d[1].map))]
            ELSE [kind |-> "error", data |-> None])
    ELSE IF Truthy(d)
      THEN (IF d[1].kind \in {"object", "string", "array"}
              THEN [kind |-> "zero", data |-> Some(ZeroData(Iterated(d[1])))]
              ELSE [kind |-> "error", data |-> None])
      ELSE [kind |-> "raise", data |-> None]

\* coordinator.py 118-124: the update_interval after a success.
ResetInterval(c, b) == IF c # b THEN b ELSE c

\* ------------------------------------------------------------------- state

VARIABLES
  base,      \* self._base_update_interval, seconds
  cur,       \* self.update_interval, seconds
  lastData,  \* self._last_valid_data: None or a JSON value
  lastTime,  \* self._last_valid_time: None or a datetime
  store,     \* the content of the Store: None or {"data", "timestamp"}
  clock,     \* the current instant
  tz,        \* the UTC offset of the local time zone
  pc,        \* where the refresh is: "idle", "fetch" (awaiting the response), "save"
  data,      \* the refresh's local variable data, once decoded
  stamp,     \* the refresh's timestamp string, built at line 111 before the save is awaited
  pc2,       \* a second execution of _async_update_data: its position,
  data2,     \*   its local variable data
  stamp2,    \*   and its timestamp string
  host,      \* who drives the coordinator: "direct" (method calls), or the integration's
             \* "setup" (first refresh), "aborted" (first refresh raised), "forwarding"
             \* (in the registry, platforms being set up), "loaded", "failed" (platform
             \* setup raised), "unloaded"
  listening, \* the options listener of line 58 is registered with the entry
  unsubCalls,\* calls of self._unsub_options_update_listener so far
  fails,     \* history: failed refreshes since the interval last equalled the base by a success or an update
  primed,    \* history: a refresh has returned a fresh reading, or a load has found
             \* stored content
  succeeded, \* history: a refresh has returned a fresh reading
  lastFetch, \* history: the reading and time of the most recent successful fetch
  writeOk,   \* history: the write of that fetch has reached the store
  began,     \* history, where it is kept: while the first execution runs, the cache and
             \* the blob as they were when it started, and the value of an options
             \* update since then
  entry,     \* self.entry: the scan interval in its options, if any, and in its data
  loading,   \* async_load_saved_data suspended at line 63: None, or the content that
             \* Store.async_load will hand back and what the history knew when it was read
  orphan,    \* an execution of _async_update_data that an earlier coordinator object
             \* left suspended: None, or its position, data and timestamp string
  flowEntries, \* the config entries of the domain that the flows have created: each its
             \* unique id, and the IP address and scan interval in its data
  ev         \* history: the step just taken and, for a finished refresh, its outcome

vars ==
  << base, cur, lastData, lastTime, store, clock, tz, pc, data, stamp, pc2, data2, stamp2,
     host, listening, unsubCalls, fails, primed, succeeded, lastFetch, writeOk, began,
     entry, loading, orphan, flowEntries, ev >>

\* The second execution's variables.
slot2 == << pc2, data2, stamp2 >>

\* The first execution's variables.
slot1 == << pc, data, stamp >>

\* The integration's and the listener's variables.
life == << host, listening, unsubCalls >>

\* The history of fetches and writes.
hist == << lastFetch, writeOk >>

\* What only some callers touch: a suspended load, an orphaned execution, the
\* entries of the flows.
side == << loading, orphan, flowEntries >>

\* dt_util.now(): the current instant in the local time zone.
Now == [inst |-> clock, off |-> tz]

\* The scan interval parts of a config entry: entry.options may lack the key,
\* entry.data holds it since the user step (config_flow.py 26-31).
Entries ==
  [options : { None } \cup { Some(v) : v \in ScanIntervals }, data : ScanIntervals]

\* The entries whose options carry the scan interval, over the default in the
\* data.
OptionEntries ==
  { [options |-> Some(v), data |-> DEFAULT_SCAN_INTERVAL] : v \in ScanIntervals }

\* No entry: the step just taken was no construction.
NoEntry == [options |-> None, data |-> 0]

\* Mutant of ScanIntervalOf: the initial data takes precedence over the options.
ScanIntervalDataFirst(e) == e.data

\* coordinator.py 34: entry.options.get(CONF_SCAN_INTERVAL, entry.data.get(CONF_SCAN_INTERVAL)).
ScanIntervalOf(e) == IF e.options # None THEN e.options[1] ELSE e.data

Event(op, kind, ret, err, fetched, save, at) ==
  [op |-> op, kind |-> kind, data |-> ret, err |-> err, fetched |-> fetched,
   save |-> save, prevCur |-> at, arg |-> 0, fresh |-> FALSE, slot |-> 1,
   entry |-> NoEntry, began |-> None, read |-> None]

NoEvent(op) == Event(op, "none", None, "none", FALSE, "none", cur)

\* A blob as the coordinator writes it: a reading and the ISO form of its time.
GoodBlob(r, t) == Some([data |-> Some(Obj(r)), timestamp |-> Some(IsoFormat(t))])

\* The reading with every key.
FullReading == CHOOSE r \in Readings : DOMAIN r = Keys

\* Stored data that is no object: truthy and not iterable (7), falsy (0, false,
\* "", []), truthy and iterable ("ok", ["InputPower"]).
BadData ==
  { Num(BadNumber), Num(0), Bool(FALSE), Str(<< >>), Array(<< >>), Str(BadString),
    Array(BadArray) }

\* Malformed store contents: no data, data that is no object, no timestamp, an
\* empty timestamp, a timestamp that is no date.
BadStores ==
  { Some([data |-> None, timestamp |-> Some(IsoFormat([inst |-> 0, off |-> 0]))]),
    Some([data |-> Some(Obj(FullReading)), timestamp |-> None]),
    Some([data |-> Some(Obj(FullReading)), timestamp |-> Some(EmptyString)]),
    Some([data |-> Some(Obj(FullReading)), timestamp |-> Some(NotADate)]) }
    \cup { Some([data |-> Some(d), timestamp |-> Some(IsoFormat([inst |-> 0, off |-> 0]))]) :
             d \in BadData }

\* What the store can hold when the coordinator is constructed: nothing, a blob
\* written by an earlier run, or malformed content.
InitStores ==
  { None } \cup { GoodBlob(FullReading, [inst |-> 0, off |-> o]) : o \in Offsets }
    \cup { GoodBlob(FullReading, [inst |-> 0 - 1, off |-> 0]) } \cup BadStores

\* The stores followed where the integration sets the coordinator up: it never
\* reads the store, so that one blob stands for all.
SetupStores == { None, GoodBlob(FullReading, [inst |-> 0, off |-> 0]) }

\* coordinator.py 24-58: __init__ has run for the entry e, the coordinator is
\* driven by h and the store holds s.
Constructed(h, e, s) ==
  /\ base = ScanIntervalOf(e)
  /\ cur = ScanIntervalOf(e)
  /\ lastData = None
  /\ lastTime = None
  /\ host = h
  /\ store = s
  /\ clock = 0
  /\ tz \in Offsets
  /\ pc = "idle"
  /\ data = None
  /\ stamp = None
  /\ pc2 = "idle"
  /\ data2 = None
  /\ stamp2 = None
  /\ listening = TRUE
  /\ unsubCalls = 0
  /\ fails = 0
  /\ primed = FALSE
  /\ succeeded = FALSE
  /\ lastFetch = None
  /\ writeOk = FALSE
  /\ began = None
  /\ entry = e
  /\ loading = None
  /\ orphan = None
  /\ flowEntries = {}
  /\ ev = [Event("init", "none", None, "none", FALSE, "none", ScanIntervalOf(e)) EXCEPT !.entry = e]

\* The coordinator is constructed by a direct caller.
Init == \E e \in OptionEntries, s \in InitStores : Constructed("direct", e, s)

\* The coordinator is constructed by a direct caller over an empty store.
InitOverlap == \E e \in OptionEntries : Constructed("direct", e, None)

\* The coordinator is constructed by a direct caller over a store that an
\* earlier run has written.
InitUnawaited ==
  Constructed("direct", [options |-> None, data |-> DEFAULT_SCAN_INTERVAL],
              GoodBlob(FullReading, [inst |-> 0, off |-> 0]))

\* __init__.py 20: the coordinator is constructed by async_setup_entry.
InitHost == \E e \in Entries, s \in SetupStores : Constructed("setup", e, s)

\* ----------------------------------------------------------------- actions

\* Time passes.
Tick ==
  /\ clock < MaxTime
  /\ clock' = clock + 1
  /\ ev' = NoEvent("tick")
  /\ UNCHANGED << side, entry, began, base, cur, lastData, lastTime, store, tz, slot1, slot2, life, fails,
                  primed, succeeded, hist >>

\* The local UTC offset changes (daylight saving, a changed time zone setting).
TzChange ==
  /\ \E o \in Offsets \ {tz} : tz' = o
  /\ ev' = NoEvent("tz")
  /\ UNCHANGED << side, entry, began, base, cur, lastData, lastTime, store, clock, slot1, slot2, life, fails,
                  primed, succeeded, hist >>

\* coordinator.py 62-63: async_load_saved_data up to the end of the await of
\* Store.async_load, which reads the content or raises.  The history keeps what
\* was known of the store when it was read.  One load is followed at a time: of
\* two that overlap, the one that resumes last decides the cache, as it would
\* alone.
AsyncLoad ==
  /\ loading = None
  /\ \E readable \in BOOLEAN :
       loading' = Some([raised |-> ~readable, blob |-> (IF readable THEN store ELSE None),
                        fetch |-> lastFetch, ok |-> writeOk])
  /\ ev' = NoEvent("read")
  /\ UNCHANGED << orphan, flowEntries, entry, began, base, cur, lastData, lastTime, store, clock, tz,
                  slot1, slot2, life, fails, primed, succeeded, hist >>

\* coordinator.py 63-76: async_load_saved_data from the end of the await.  An
\* exception of the load is logged and leaves the cache; so does content that is
\* None or empty.  Otherwise the data is taken as it is, and the time is parsed
\* from a timestamp that is present and not empty.
LoadSavedData ==
  /\ loading # None
  /\ LET s == loading[1].blob
     IN  IF ~loading[1].raised /\ s # None
           THEN /\ lastData' = s[1].data
                /\ lastTime' = IF s[1].timestamp # None /\ TruthyString(s[1].timestamp[1])
                                 THEN ParseDatetime(s[1].timestamp[1])
                                 ELSE lastTime
                /\ primed' = TRUE
           ELSE UNCHANGED << lastData, lastTime, primed >>
  /\ loading' = None
  /\ ev' = [NoEvent("load") EXCEPT !.fresh = (~primed /\ lastData = None /\ lastTime = None),
                                    !.read = loading,
                                    !.kind = (IF loading[1].raised THEN "error" ELSE "none")]
  /\ UNCHANGED << orphan, flowEntries, entry, began, base, cur, store, clock, tz, slot1, slot2, life,
                  fails, succeeded, hist >>

\* Mutant of HandleOptionsUpdate: while a refresh is suspended only the base
\* interval is replaced.
HandleOptionsUpdateDeferred ==
  /\ listening
  /\ \E v \in ScanIntervals :
       /\ entry' = [entry EXCEPT !.options = Some(v)]
       /\ cur' = (IF pc = "idle" THEN v ELSE cur)
       /\ base' = v
       /\ ev' = [NoEvent("update") EXCEPT !.arg = v]
       /\ began' = (IF began = None THEN None ELSE Some([began[1] EXCEPT !.upd = Some(v)]))
  /\ fails' = 0
  /\ UNCHANGED << side, lastData, lastTime, store, clock, tz, slot1, slot2, life, primed,
                  succeeded, hist >>

\* Mutant of HandleOptionsUpdate: the new value is doubled where the interval was
\* backed off.
HandleOptionsUpdateKeepBackoff ==
  /\ listening
  /\ \E v \in ScanIntervals :
       /\ entry' = [entry EXCEPT !.options = Some(v)]
       /\ cur' = (IF cur > base THEN Backoff(v) ELSE v)
       /\ base' = v
       /\ ev' = [NoEvent("update") EXCEPT !.arg = v]
       /\ began' = (IF began = None THEN None ELSE Some([began[1] EXCEPT !.upd = Some(v)]))
  /\ fails' = 0
  /\ UNCHANGED << side, lastData, lastTime, store, clock, tz, slot1, slot2, life, primed,
                  succeeded, hist >>

\* Mutant of HandleOptionsUpdate: only the base interval is replaced.
HandleOptionsUpdateBaseOnly ==
  /\ listening
  /\ \E v \in ScanIntervals :
       /\ entry' = [entry EXCEPT !.options = Some(v)]
       /\ base' = v
       /\ ev' = [NoEvent("update") EXCEPT !.arg = v]
       /\ began' = (IF began = None THEN None ELSE Some([began[1] EXCEPT !.upd = Some(v)]))
  /\ fails' = 0
  /\ UNCHANGED << side, cur, lastData, lastTime, store, clock, tz, slot1, slot2, life, primed,
                  succeeded, hist >>

\* coordinator.py 78-84: _handle_options_update, called by the entry while the
\* listener is registered, after the options flow has stored the scan interval
\* v (config_flow.py 189-216).
HandleOptionsUpdate ==
  /\ listening
  /\ \E v \in ScanIntervals :
       /\ entry' = [entry EXCEPT !.options = Some(v)]
       /\ cur' = v
       /\ base' = v
       /\ ev' = [NoEvent("update") EXCEPT !.arg = v]
       /\ began' = (IF began = None THEN None ELSE Some([began[1] EXCEPT !.upd = Some(v)]))
  /\ fails' = 0
  /\ UNCHANGED << side, lastData, lastTime, store, clock, tz, slot1, slot2, life, primed,
                  succeeded, hist >>

\* Who calls _async_update_data: a direct caller, the setup (first refresh) and
\* the scheduler of a coordinator that is in the registry.  Nothing in the
\* method refuses a call.
MayRefresh == host \in {"direct", "setup", "forwarding", "loaded"}

\* coordinator.py 86-92: _async_update_data up to the await of session.get; b is
\* what the history keeps of the start.
StartExecution(b) ==
  /\ MayRefresh
  /\ pc = "idle"
  /\ pc' = "fetch"
  /\ data' = None
  /\ stamp' = None
  /\ began' = b
  /\ ev' = NoEvent("start")
  /\ UNCHANGED << side, entry, base, cur, lastData, lastTime, store, clock, tz, slot2, life, fails,
                  primed, succeeded, hist >>

\* A refresh starts.
RefreshStart == StartExecution(None)

\* A refresh starts, and the history keeps the cache and the blob of that moment.
RefreshStartTracked ==
  StartExecution(Some([data |-> lastData, time |-> lastTime, store |-> store, upd |-> None]))

\* __init__.py 24-27: async_config_entry_first_refresh.  The setup is given up
\* when the first refresh raises; when it returns, the coordinator is put in the
\* registry and the setup goes on to forward the entry to the platforms.
HostAfter(kind) ==
  IF host = "setup"
    THEN (IF kind \in {"raise", "error"} THEN "aborted" ELSE "forwarding")
    ELSE host

\* Mutant of FailureCore: the interval is backed off only when no substitute can
\* be returned.
FailureCoreBackoffOnRaise(e, fetched, save, slot) ==
  /\ fails < MaxFails
  /\ LET r == FailureResult(lastData, lastTime, Now)
     IN  /\ cur' = (IF r.kind = "raise" THEN Backoff(cur) ELSE cur)
         /\ ev' = [Event("refresh", r.kind, r.data, e, fetched, save, cur)
                   EXCEPT !.slot = slot, !.began = (IF slot = 1 THEN began ELSE None)]
         /\ host' = HostAfter(r.kind)
  /\ fails' = fails + 1

\* coordinator.py 129-180: the except branch, entered with error e: the backoff
\* step, then the substitution decision.
FailureCore(e, fetched, save, slot) ==
  /\ fails < MaxFails
  /\ cur' = Backoff(cur)
  /\ fails' = fails + 1
  /\ LET r == FailureResult(lastData, lastTime, Now)
     IN  /\ ev' = [Event("refresh", r.kind, r.data, e, fetched, save, cur)
                   EXCEPT !.slot = slot, !.began = (IF slot = 1 THEN began ELSE None)]
         /\ host' = HostAfter(r.kind)

\* The except branch in the first execution.
FailurePath(e, fetched, save) ==
  /\ FailureCore(e, fetched, save, 1)
  /\ pc' = "idle"
  /\ data' = None
  /\ stamp' = None
  /\ began' = None

\* Mutant of FetchFail: a payload that is not a dict raises UpdateFailed past the
\* handler, without the backoff step and without a substitute.
FetchFailInvalidEscapes ==
  /\ pc = "fetch"
  /\ \E e \in FetchErrors :
       IF e = "not_a_dict"
         THEN /\ fails < MaxFails
              /\ cur' = cur
              /\ fails' = fails + 1
              /\ ev' = Event("refresh", "raise", None, e, FALSE, "none", cur)
              /\ host' = HostAfter("raise")
              /\ pc' = "idle"
              /\ data' = None
              /\ stamp' = None
              /\ began' = None
         ELSE FailurePath(e, FALSE, "none")
  /\ UNCHANGED << side, entry, base, lastData, lastTime, store, clock, tz, slot2, listening, unsubCalls,
                  primed, succeeded, hist >>

\* coordinator.py 92-100, 129-180: the fetch times out, the request fails, the
\* status is not 2xx, or the payload is not a dict.
FetchFail ==
  /\ pc = "fetch"
  /\ \E e \in FetchErrors : FailurePath(e, FALSE, "none")
  /\ UNCHANGED << side, entry, base, lastData, lastTime, store, clock, tz, slot2, listening, unsubCalls,
                  primed, succeeded, hist >>

\* coordinator.py 102-104: the cache is updated with the decoded dict r.
CacheUpdate(r) ==
  /\ lastData' = Some(Obj(r))
  /\ lastTime' = Some(Now)
  /\ lastFetch' = Some([data |-> r, time |-> Now])
  /\ writeOk' = FALSE

\* coordinator.py 92-113: the payload is a dict; the cache is updated, the blob
\* is built and the save is awaited.
FetchOk ==
  /\ pc = "fetch"
  /\ \E r \in Readings :
       /\ data' = Some(r)
       /\ CacheUpdate(r)
  /\ stamp' = Some(IsoFormat(Now))
  /\ pc' = "save"
  /\ ev' = NoEvent("fetched")
  /\ UNCHANGED << side, entry, began, base, cur, store, clock, tz, slot2, life, fails, primed,
                  succeeded >>

\* The blob handed to Store.async_save (coordinator.py 108-113).
Blob == Some([data |-> Some(Obj(data[1])), timestamp |-> stamp])

\* coordinator.py 117-127: the backoff is reset and the fresh data returned.
SucceedCore(d, save, slot) ==
  /\ cur' = ResetInterval(cur, base)
  /\ fails' = 0
  /\ ev' = [Event("refresh", "fresh", d, "none", TRUE, save, cur)
              EXCEPT !.slot = slot, !.began = (IF slot = 1 THEN began ELSE None)]
  /\ host' = HostAfter("fresh")
  /\ succeeded' = TRUE
  /\ primed' = TRUE

\* The return of the first execution.
Succeed(save) ==
  /\ SucceedCore(data, save, 1)
  /\ pc' = "idle"
  /\ data' = None
  /\ stamp' = None
  /\ began' = None

\* The blob b is the one of the most recent fetch: no later fetch has replaced
\* the cache since b was built.
Written(b) ==
  lastFetch # None /\ b = GoodBlob(lastFetch[1].data, lastFetch[1].time)

\* Mutant of SaveOk: the save returns without having written.
SaveOkNoWrite ==
  /\ pc = "save"
  /\ store' = store
  /\ writeOk' = TRUE
  /\ Succeed("ok")
  /\ UNCHANGED << side, entry, base, lastData, lastTime, clock, tz, slot2, listening, unsubCalls,
                  lastFetch >>

\* coordinator.py 108-127: the save completes.
SaveOk ==
  /\ pc = "save"
  /\ store' = Blob
  /\ writeOk' = Written(Blob)
  /\ Succeed("ok")
  /\ UNCHANGED << side, entry, base, lastData, lastTime, clock, tz, slot2, listening, unsubCalls,
                  lastFetch >>

\* Mutant of SaveRaise: the exception of the save is not caught at line 114 and
\* reaches the handler of line 129.
SaveRaisePropagates ==
  /\ pc = "save"
  /\ store' = store
  /\ FailurePath("save_error", TRUE, "raised")
  /\ UNCHANGED << side, entry, base, lastData, lastTime, clock, tz, slot2, listening, unsubCalls, primed,
                  succeeded, hist >>

\* coordinator.py 114-127: the save raises an Exception, which is logged.
SaveRaise ==
  /\ pc = "save"
  /\ store' = store
  /\ Succeed("raised")
  /\ UNCHANGED << side, entry, base, lastData, lastTime, clock, tz, slot2, listening, unsubCalls,
                  hist >>

\* coordinator.py 91, 108, 129-180: the save is still awaited when the timeout of
\* async_timeout.timeout(15) expires.  The task is cancelled inside the await;
\* CancelledError is no Exception, so line 114 lets it pass, the timeout context
\* turns it into TimeoutError and line 129 catches that.  The write itself may or
\* may not have reached the store.
SaveTimeout ==
  /\ pc = "save"
  /\ \E written \in BOOLEAN :
       /\ store' = (IF written THEN Blob ELSE store)
       /\ writeOk' = (IF written THEN Written(Blob) ELSE writeOk)
  /\ FailurePath("timeout", TRUE, "timeout")
  /\ UNCHANGED << side, entry, base, lastData, lastTime, clock, tz, slot2, listening, unsubCalls, primed,
                  succeeded, lastFetch >>

\* At most one execution of _async_update_data is suspended, an orphaned one
\* included: the model follows one orphan.
AtMostOneSuspended ==
  /\ pc = "idle" \/ pc2 = "idle"
  /\ orphan = None \/ (pc = "idle" /\ pc2 = "idle")

\* coordinator.py 24-58: a new coordinator object for the same entry and store,
\* built by a direct caller or by async_setup_entry (__init__.py 20) when the
\* setup is tried again or the entry is loaded again.  The interval is read from
\* the entry as it is now.  What the old object left suspended goes on with the
\* old object: a refresh as an orphan, a load without effect on the new cache.
Construct ==
  /\ host \in {"direct", "aborted", "failed", "unloaded"}
  /\ AtMostOneSuspended
  /\ host' = (IF host = "direct" THEN "direct" ELSE "setup")
  /\ base' = ScanIntervalOf(entry)
  /\ cur' = ScanIntervalOf(entry)
  /\ lastData' = None
  /\ lastTime' = None
  /\ listening' = TRUE
  /\ unsubCalls' = 0
  /\ fails' = 0
  /\ primed' = FALSE
  /\ succeeded' = FALSE
  /\ orphan' = (IF pc # "idle" THEN Some([pc |-> pc, data |-> data, stamp |-> stamp])
                ELSE IF pc2 # "idle" THEN Some([pc |-> pc2, data |-> data2, stamp |-> stamp2])
                ELSE orphan)
  /\ pc' = "idle" /\ data' = None /\ stamp' = None
  /\ pc2' = "idle" /\ data2' = None /\ stamp2' = None
  /\ loading' = None
  /\ began' = None
  /\ ev' = [NoEvent("construct") EXCEPT !.entry = entry]
  /\ UNCHANGED << flowEntries, entry, store, clock, tz, hist >>

\* coordinator.py 92-113 in an orphaned execution: the fetch fails and the
\* execution ends in the old object, or it succeeds and the blob is built.
OrphanFetch ==
  /\ orphan # None /\ orphan[1].pc = "fetch"
  /\ \/ /\ orphan' = None
        /\ UNCHANGED hist
     \/ \E r \in Readings :
          /\ orphan' = Some([pc |-> "save", data |-> Some(r), stamp |-> Some(IsoFormat(Now))])
          /\ lastFetch' = Some([data |-> r, time |-> Now])
          /\ writeOk' = FALSE
  /\ ev' = NoEvent("orphan")
  /\ UNCHANGED << loading, flowEntries, entry, began, base, cur, lastData, lastTime, store, clock, tz,
                  slot1, slot2, life, fails, primed, succeeded >>

\* coordinator.py 108-116 in an orphaned execution: the save ends, and the blob
\* has reached the store or not.
OrphanSave ==
  /\ orphan # None /\ orphan[1].pc = "save"
  /\ \E written \in BOOLEAN :
       LET b == Some([data |-> Some(Obj(orphan[1].data[1])), timestamp |-> orphan[1].stamp])
       IN  /\ store' = (IF written THEN b ELSE store)
           /\ writeOk' = (IF written THEN Written(b) ELSE writeOk)
  /\ orphan' = None
  /\ ev' = NoEvent("orphan")
  /\ UNCHANGED << loading, flowEntries, entry, began, base, cur, lastData, lastTime, clock, tz,
                  slot1, slot2, life, fails, primed, succeeded, lastFetch >>

\* config_flow.py 189-216: the options flow stores the scan interval v while no
\* listener of the coordinator is registered.
OptionsUnheard ==
  /\ ~listening
  /\ \E v \in ScanIntervals : entry' = [entry EXCEPT !.options = Some(v)]
  /\ ev' = NoEvent("options")
  /\ UNCHANGED << side, began, base, cur, lastData, lastTime, store, clock, tz, slot1, slot2, life,
                  fails, primed, succeeded, hist >>

\* config_flow.py 143-174 for the entry of the coordinator: the reconfigure
\* flow replaces the scan interval in entry.data.  A registered listener is
\* called with the entry (coordinator.py 78-84): it sets both intervals from
\* entry.options, and raises KeyError at line 80 where the options are empty.
ReconfigureEntry ==
  /\ \E d \in ScanIntervals \ { entry.data } : entry' = [entry EXCEPT !.data = d]
  /\ IF listening /\ entry.options # None
       THEN /\ cur' = entry.options[1]
            /\ base' = entry.options[1]
            /\ fails' = 0
            /\ ev' = [NoEvent("update") EXCEPT !.arg = entry.options[1]]
            /\ began' = (IF began = None THEN None
                         ELSE Some([began[1] EXCEPT !.upd = Some(entry.options[1])]))
       ELSE /\ UNCHANGED << cur, base, fails, began >>
            /\ ev' = [NoEvent("reconfigure") EXCEPT !.kind = (IF listening THEN "keyerror" ELSE "none")]
  /\ UNCHANGED << side, lastData, lastTime, store, clock, tz, slot1, slot2, life, primed,
                  succeeded, hist >>

\* __init__.py 31-36: async_forward_entry_setups returns and the setup returns
\* True, or it raises and the setup raises with the coordinator in the registry.
ForwardEntrySetups ==
  /\ host = "forwarding"
  /\ \E ok \in BOOLEAN :
       /\ host' = (IF ok THEN "loaded" ELSE "failed")
       /\ ev' = [NoEvent("forward") EXCEPT !.kind = (IF ok THEN "ok" ELSE "raised")]
  /\ UNCHANGED << side, entry, began, base, cur, lastData, lastTime, store, clock, tz, slot1, slot2,
                  listening, unsubCalls, fails, primed, succeeded, hist >>

\* coordinator.py 182-186: async_shutdown.  The handle is a function and stays in
\* the attribute, so that the test of line 184 holds on every call.
AsyncShutdown ==
  /\ unsubCalls' = unsubCalls + 1
  /\ listening' = FALSE

\* A direct caller shuts the coordinator down.
Shutdown ==
  /\ host = "direct"
  /\ unsubCalls < MaxShutdowns
  /\ AsyncShutdown
  /\ ev' = NoEvent("shutdown")
  /\ UNCHANGED << side, entry, began, base, cur, lastData, lastTime, store, clock, tz, slot1, slot2, host, fails,
                  primed, succeeded, hist >>

\* Mutant of UnloadEntry: the coordinator is shut down and dropped whatever the
\* platform unload returned.
UnloadEntryAlways ==
  /\ host = "loaded"
  /\ \E unload_ok \in BOOLEAN :
       /\ host' = "unloaded"
       /\ AsyncShutdown
       /\ ev' = [NoEvent("unload") EXCEPT !.kind = (IF unload_ok THEN "ok" ELSE "failed")]
  /\ UNCHANGED << side, entry, began, base, cur, lastData, lastTime, store, clock, tz, slot1, slot2, fails,
                  primed, succeeded, hist >>

\* __init__.py 39-55: async_unload_entry; the platform unload succeeds or not.
UnloadEntry ==
  /\ host = "loaded"
  /\ \E unload_ok \in BOOLEAN :
       IF unload_ok
         THEN /\ host' = "unloaded"
              /\ AsyncShutdown
              /\ ev' = [NoEvent("unload") EXCEPT !.kind = "ok"]
         ELSE /\ UNCHANGED << host, listening, unsubCalls >>
              /\ ev' = [NoEvent("unload") EXCEPT !.kind = "failed"]
  /\ UNCHANGED << side, entry, began, base, cur, lastData, lastTime, store, clock, tz, slot1, slot2, fails,
                  primed, succeeded, hist >>

\* ------------------------------------------ a second, overlapping execution

\* coordinator.py 86-92: _async_update_data is entered while another execution
\* of it is suspended; nothing in the method keeps the two apart.
RefreshStart2 ==
  /\ MayRefresh
  /\ pc # "idle" /\ pc2 = "idle"
  /\ pc2' = "fetch"
  /\ data2' = None
  /\ stamp2' = None
  /\ ev' = [NoEvent("start") EXCEPT !.slot = 2]
  /\ UNCHANGED << side, entry, began, base, cur, lastData, lastTime, store, clock, tz, slot1, life, fails,
                  primed, succeeded, hist >>

\* The except branch in the second execution.
FailurePath2(e, fetched, save) ==
  /\ FailureCore(e, fetched, save, 2)
  /\ pc2' = "idle"
  /\ data2' = None
  /\ stamp2' = None

FetchFail2 ==
  /\ pc2 = "fetch"
  /\ \E e \in FetchErrors : FailurePath2(e, FALSE, "none")
  /\ UNCHANGED << side, entry, began, base, lastData, lastTime, store, clock, tz, slot1, listening, unsubCalls,
                  primed, succeeded, hist >>

FetchOk2 ==
  /\ pc2 = "fetch"
  /\ \E r \in Readings :
       /\ data2' = Some(r)
       /\ CacheUpdate(r)
  /\ stamp2' = Some(IsoFormat(Now))
  /\ pc2' = "save"
  /\ ev' = [NoEvent("fetched") EXCEPT !.slot = 2]
  /\ UNCHANGED << side, entry, began, base, cur, store, clock, tz, slot1, life, fails, primed,
                  succeeded >>

Blob2 == Some([data |-> Some(Obj(data2[1])), timestamp |-> stamp2])

Succeed2(save) ==
  /\ SucceedCore(data2, save, 2)
  /\ pc2' = "idle"
  /\ data2' = None
  /\ stamp2' = None

SaveOk2 ==
  /\ pc2 = "save"
  /\ store' = Blob2
  /\ writeOk' = Written(Blob2)
  /\ Succeed2("ok")
  /\ UNCHANGED << side, entry, began, base, lastData, lastTime, clock, tz, slot1, listening, unsubCalls,
                  lastFetch >>

SaveRaise2 ==
  /\ pc2 = "save"
  /\ store' = store
  /\ Succeed2("raised")
  /\ UNCHANGED << side, entry, began, base, lastData, lastTime, clock, tz, slot1, listening, unsubCalls,
                  hist >>

SaveTimeout2 ==
  /\ pc2 = "save"
  /\ \E written \in BOOLEAN :
       /\ store' = (IF written THEN Blob2 ELSE store)
       /\ writeOk' = (IF written THEN Written(Blob2) ELSE writeOk)
  /\ FailurePath2("timeout", TRUE, "timeout")
  /\ UNCHANGED << side, entry, began, base, lastData, lastTime, clock, tz, slot1, listening, unsubCalls, primed,
                  succeeded, lastFetch >>

\* ------------------------------------------------------------ config flow

\* The flow's step has ended with kind k.
FlowEvent(op, k) == [NoEvent(op) EXCEPT !.kind = k]

\* config_flow.py 101-124: async_step_user with a user input.  The input is
\* validated against the device; then the IP address becomes the flow's unique
\* id, the flow stops when an entry holds that unique id, and the entry is
\* created otherwise.  Where the flow stops, no entry is created, whichever
\* exception ends the step.
StepUser ==
  /\ \E ip \in IpAddresses, scan \in ScanIntervals, valid \in BOOLEAN :
       IF ~valid
         THEN /\ flowEntries' = flowEntries
              /\ ev' = FlowEvent("user", "form")
         ELSE IF \E e \in flowEntries : e.uid = ip
           THEN /\ flowEntries' = flowEntries
                /\ ev' = FlowEvent("user", "aborted")
           ELSE /\ Cardinality(flowEntries) < MaxEntries
                /\ flowEntries' = flowEntries \cup { [uid |-> ip, ip |-> ip, scan |-> scan] }
                /\ ev' = FlowEvent("user", "created")
  /\ UNCHANGED << base, cur, lastData, lastTime, store, clock, tz, slot1, slot2, life, fails,
                  primed, succeeded, hist, began, entry, loading, orphan >>

\* config_flow.py 143-158: async_step_reconfigure with a user input for the
\* entry e.  After the validation the entry's data is replaced by
\* {**entry.data, **user_input}; the unique id is neither compared nor changed.
StepReconfigure ==
  /\ \E e \in flowEntries, ip \in IpAddresses, scan \in ScanIntervals, valid \in BOOLEAN :
       IF valid
         THEN /\ flowEntries' = (flowEntries \ { e }) \cup { [uid |-> e.uid, ip |-> ip, scan |-> scan] }
              /\ ev' = FlowEvent("reconfigure", "updated")
         ELSE /\ flowEntries' = flowEntries
              /\ ev' = FlowEvent("reconfigure", "form")
  /\ UNCHANGED << base, cur, lastData, lastTime, store, clock, tz, slot1, slot2, life, fails,
                  primed, succeeded, hist, began, entry, loading, orphan >>

\* ---------------------------------------------------------- specifications

\* The steps of one execution of _async_update_data.
Execution ==
  \/ RefreshStart
  \/ FetchFail
  \/ FetchOk
  \/ SaveOk
  \/ SaveRaise
  \/ SaveTimeout

\* A caller that awaits each of its calls has none suspended when it makes the
\* next (tests/test_coordinator.py).
Awaited == pc = "idle" /\ pc2 = "idle" /\ loading = None /\ orphan = None

RefreshStartAwaited == Awaited /\ RefreshStart

AsyncLoadAwaited == Awaited /\ AsyncLoad

ConstructAwaited == Awaited /\ Construct

Next ==
  \/ Tick
  \/ TzChange
  \/ HandleOptionsUpdate
  \/ RefreshStartAwaited
  \/ FetchFail
  \/ FetchOk
  \/ SaveOk
  \/ SaveRaise
  \/ SaveTimeout
  \/ AsyncLoadAwaited
  \/ LoadSavedData
  \/ ConstructAwaited

\* The coordinator used directly, each call awaited before the next.
Spec == Init /\ [][Next]_vars

NextShutdown ==
  \/ Tick
  \/ Execution
  \/ Shutdown
  \/ Construct
  \/ OrphanFetch
  \/ OrphanSave

\* The coordinator used directly by callers that do not await their calls: shut
\* down, refreshed after that and constructed again while a refresh is
\* suspended.
SpecShutdown == InitUnawaited /\ [][NextShutdown]_vars

NextUnawaited ==
  \/ Tick
  \/ Execution
  \/ AsyncLoad
  \/ LoadSavedData
  \/ Construct
  \/ OrphanFetch
  \/ OrphanSave

\* The coordinator used directly by callers that do not await their calls: a
\* load and a refresh suspended at once, a coordinator constructed anew while
\* the old one has a call suspended.
SpecUnawaited == InitUnawaited /\ [][NextUnawaited]_vars

NextOverlap ==
  \/ Tick
  \/ Execution
  \/ RefreshStart2
  \/ FetchFail2
  \/ FetchOk2
  \/ SaveOk2
  \/ SaveRaise2
  \/ SaveTimeout2

\* Callers that do not wait for a running refresh before they start another,
\* on a coordinator whose store is empty at first.
SpecOverlap == InitOverlap /\ [][NextOverlap]_vars

NextTracked ==
  \/ Tick
  \/ TzChange
  \/ HandleOptionsUpdate
  \/ RefreshStartTracked
  \/ FetchFail
  \/ FetchOk
  \/ SaveOk
  \/ SaveRaise
  \/ SaveTimeout

\* Refreshes of one coordinator over a store that is empty at first, with the
\* history of each refresh's start.
SpecTracked == InitOverlap /\ [][NextTracked]_vars

NextLive ==
  \/ Tick
  \/ Execution

\* Refreshes of one coordinator that the scheduler keeps starting and whose
\* awaits all end: the fetch answers or fails, the save returns, raises or is
\* cut by the timeout.
SpecLive ==
  /\ InitOverlap
  /\ [][NextLive]_vars
  /\ WF_vars(RefreshStart)
  /\ WF_vars(FetchFail \/ FetchOk)
  /\ WF_vars(SaveOk \/ SaveRaise \/ SaveTimeout)

NextFlow ==
  \/ StepUser
  \/ StepReconfigure

\* The user and reconfigure flows of the domain.
SpecFlow == InitOverlap /\ [][NextFlow]_vars

NextHost ==
  \/ HandleOptionsUpdate
  \/ Execution
  \/ ForwardEntrySetups
  \/ UnloadEntry
  \/ OptionsUnheard
  \/ ReconfigureEntry
  \/ ConstructAwaited

\* The coordinator in the integration: set up, refreshed by the scheduler,
\* its entry changed by the flows, unloaded and set up again once its refresh
\* has ended.
SpecHost == InitHost /\ [][NextHost]_vars

\* ------------------------------------------------------------------ claims

RECURSIVE Pow2(_)
Pow2(n) == IF n = 0 THEN 1 ELSE 2 * Pow2(n - 1)

Min(a, b) == IF a < b THEN a ELSE b

Max(a, b) == IF a > b THEN a ELSE b

\* A refresh has just ended on the failure path (a substitute or UpdateFailed).
JustFailed == ev.op = "refresh" /\ ev.kind # "fresh"

\* A refresh has just failed in its fetch: timeout, request error or a payload
\* that is no object.
FetchJustFailed == JustFailed /\ ~ev.fetched

\* The cache holds a reading, and it is not the empty object.
NonEmptyCache == lastData # None /\ lastData[1].kind = "object" /\ DOMAIN lastData[1].map # {}

\* The cache holds a reading, possibly the empty object.
ReadingCached == lastData # None /\ lastData[1].kind = "object"

\* m is the substitute of P3 for the reading r: the keys of r, daily fields
\* kept, every other field 0.
IsSameDaySubstitute(m, r) ==
  /\ DOMAIN m = DOMAIN r
  /\ \A k \in DOMAIN r : m[k] = (IF k \in DAILY_SENSORS THEN r[k] ELSE 0)

\* m is the substitute of P4 for the reading r: the keys of r, every field 0.
IsAllZero(m, r) ==
  /\ DOMAIN m = DOMAIN r
  /\ \A k \in DOMAIN r : m[k] = 0

\* C1 as stated (P1, backoff growth): after n consecutive failed refreshes from
\* currentInterval = baseInterval = b, currentInterval = min(b * 2^n, 5 minutes),
\* for every configurable b.  Fails for b above 5 minutes.
C1_BackoffGrowth_AsStated == cur = Min(base * Pow2(fails), Ceiling)

\* C1 amended: after n consecutive failed refreshes currentInterval is
\* min(b * 2^n, 5 minutes) when b is at most 5 minutes, and stays b when b is
\* above 5 minutes.
C1_BackoffGrowth ==
  cur = (IF base > Ceiling THEN base ELSE Min(base * Pow2(fails), Ceiling))

\* C1 witness: two or more failures in a row have clamped 240 s to the ceiling.
C1_Witness == JustFailed /\ base = 240 /\ fails >= 2 /\ cur = Ceiling

\* C2 (P2, backoff reset): a refresh whose fetch and decode succeeded leaves
\* currentInterval equal to baseInterval.
C2_ResetOnFetchSuccess == (ev.op = "refresh" /\ ev.fetched) => cur = base

\* C3: currentInterval >= baseInterval in every reachable state.
C3_CurrentAtLeastBase == cur >= base

\* C3 witness: an options update has just replaced an interval backed off to the
\* ceiling by a base interval above it.
C3_Witness == ev.op = "update" /\ ev.prevCur = Ceiling /\ base > Ceiling

\* C4 as stated: currentInterval <= 5 minutes in every reachable state, for every
\* scan interval construction or updateInterval accepts.  Fails for a scan
\* interval above 5 minutes.
C4_CurrentAtMostCeiling_AsStated == cur <= Ceiling

\* C4 amended: currentInterval never exceeds the larger of baseInterval and
\* 5 minutes; it is at most 5 minutes whenever the scan interval is.
C4_CurrentAtMostCeiling == cur <= Max(base, Ceiling)

\* C4 witness: a failure has just stopped at the ceiling where doubling would
\* have passed it.
C4_Witness == JustFailed /\ ev.prevCur * 2 > Ceiling /\ ev.prevCur < Ceiling /\ cur = Ceiling

\* C5 as stated (P3, same-day substitution): a failed refresh with a cached
\* reading R whose lastValidTime has the date of the failure returns the keys of
\* R, daily fields kept and the others 0.  Stated for a refresh whose fetch
\* fails.  Fails for R the empty object.
C5_SameDaySubstitute_AsStated ==
  (FetchJustFailed /\ ReadingCached /\ lastTime # None /\ DateOf(lastTime[1]) = DateOf(Now))
    => (ev.data # None /\ IsSameDaySubstitute(ev.data[1], lastData[1].map))

\* C5 amended: the same, for a cached reading R that is not the empty object;
\* with the empty object cached the refresh raises UpdateFailed.  Holds however
\* the failure path was entered.
C5_SameDaySubstitute ==
  (JustFailed /\ ReadingCached /\ lastTime # None /\ DateOf(lastTime[1]) = DateOf(Now))
    => IF DOMAIN lastData[1].map # {}
         THEN ev.data # None /\ IsSameDaySubstitute(ev.data[1], lastData[1].map)
         ELSE ev.kind = "raise"

\* C5 witness: a same-day failure over a cache with a daily and an instantaneous
\* field, both non-zero.
C5_Witness ==
  /\ JustFailed /\ ev.kind = "substitute"
  /\ ReadingCached /\ DOMAIN lastData[1].map = Keys
  /\ \A k \in Keys : lastData[1].map[k] # 0

\* C6 as stated (P4, day rollover): a failed refresh with a cached reading R
\* whose lastValidTime has another date than the failure returns the keys of R,
\* all 0.  Stated for a refresh whose fetch fails.  Fails for R the empty object.
C6_RolloverSubstitute_AsStated ==
  (FetchJustFailed /\ ReadingCached /\ lastTime # None /\ DateOf(lastTime[1]) # DateOf(Now))
    => (ev.data # None /\ IsAllZero(ev.data[1], lastData[1].map))

\* C6 amended: the same, for a cached reading R that is not the empty object;
\* with the empty object cached the refresh raises UpdateFailed.  Holds however
\* the failure path was entered.
C6_RolloverSubstitute ==
  (JustFailed /\ ReadingCached /\ lastTime # None /\ DateOf(lastTime[1]) # DateOf(Now))
    => IF DOMAIN lastData[1].map # {}
         THEN ev.data # None /\ IsAllZero(ev.data[1], lastData[1].map)
         ELSE ev.kind = "raise"

\* C6 witness: a failure on a later date over a cache with a non-zero daily field.
C6_Witness ==
  /\ JustFailed /\ ev.kind = "zero"
  /\ ReadingCached /\ lastTime # None /\ DOMAIN lastData[1].map = Keys
  /\ DateOf(lastTime[1]) < DateOf(Now)

\* C7 (P5, no-cache failure): while no refresh has returned a fresh reading and
\* no load has found stored content, every failed refresh raises UpdateFailed
\* carrying the fetch error and returns nothing.  Fails for a first refresh
\* whose fetch succeeds and whose save outlives the timeout: it ends on the
\* failure path with the reading it has just cached.
C7_NoCacheRaises ==
  (JustFailed /\ ~primed)
    => (ev.kind = "raise" /\ ev.data = None /\ ev.err \in FetchErrors)

\* C8 as stated: after a successful refresh, for any decoded object including the
\* empty one, every later failed refresh returns a substitute; UpdateFailed is
\* raised only where no reading was ever fetched or loaded.  Fails once the
\* empty object is cached.
C8_NeverRaisesOnceCached_AsStated == (FetchJustFailed /\ succeeded) => ev.kind # "raise"

\* The cache is absent or holds an empty value: the empty object, or a loaded 0,
\* false, empty string or empty array.
EmptyCache ==
  \/ lastData = None
  \/ lastData[1].kind = "object" /\ DOMAIN lastData[1].map = {}
  \/ lastData[1].kind \in {"number", "boolean"} /\ lastData[1].num = 0
  \/ lastData[1].kind \in {"string", "array"} /\ lastData[1].items = << >>

\* C8 amended: a failed refresh raises UpdateFailed exactly when the cache is
\* absent or holds an empty value, and returns a substitute whenever a non-empty
\* reading object is cached.
C8_NeverRaisesOnceCached ==
  JustFailed =>
    /\ (ev.kind = "raise") <=> EmptyCache
    /\ NonEmptyCache => ev.kind \in {"substitute", "zero"}

\* C8 witness: a failed refresh after a successful one returns a substitute.
C8_Witness == JustFailed /\ succeeded /\ ev.kind # "raise" /\ ~ev.fetched

\* C9 (P7, persistence failure isolation): when the fetch succeeds with R and the
\* write raises, refresh returns R, lastValidReading is R and currentInterval is
\* baseInterval.
C9_WriteRaiseIsolated ==
  (ev.op = "refresh" /\ ev.save = "raised")
    => (ev.kind = "fresh" /\ ev.data # None /\ lastData = Some(Obj(ev.data[1])) /\ cur = base)

\* C9 witness: the write raised in a refresh that started from a backed-off
\* interval, with an older blob still in the store.
C9_Witness ==
  /\ ev.op = "refresh" /\ ev.save = "raised"
  /\ ev.prevCur > base
  /\ store # None /\ store[1].data # lastData

\* C10: when the fetch and decode succeed, refresh returns the fresh reading and
\* does not take the backoff/substitution path, whatever the persistence write
\* does, also when it is still running as the timeout expires.  Stated for a
\* non-empty reading and for the value returned, so that the verdict rests on
\* the write alone.
C10_WriteNeverFailsRefresh ==
  (ev.op = "refresh" /\ ev.fetched /\ NonEmptyCache)
    => (ev.kind = "fresh" /\ ev.data # None /\ lastData = Some(Obj(ev.data[1])) /\ ev.err = "none")

\* The store holds a reading that is not the empty object.
StoredReading ==
  /\ store # None /\ store[1].data # None
  /\ store[1].data[1].kind = "object" /\ DOMAIN store[1].data[1].map # {}

\* The load that has just ended had read the store's content.
LoadedContent == ev.op = "load" /\ ev.read # None /\ ~ev.read[1].raised

\* C11 (P6, persistence round trip): after a successful refresh with reading R
\* at time t whose write succeeded, a fresh coordinator that loads from the same
\* store has lastValidReading = R and lastValidTime = t, offset included.
\* Stated for a load that read the store after the write.
C11_RoundTrip ==
  (LoadedContent /\ ev.fresh /\ ev.read[1].fetch # None /\ ev.read[1].ok)
    => /\ lastData = Some(Obj(ev.read[1].fetch[1].data))
       /\ lastTime = Some(ev.read[1].fetch[1].time)

\* C11 witness: a fresh coordinator has loaded a non-empty reading that was
\* written at a later instant, in another UTC offset than the current one.
C11_Witness ==
  /\ LoadedContent /\ ev.fresh /\ lastFetch # None /\ writeOk /\ ev.read[1].ok
  /\ lastFetch[1].data = FullReading
  /\ lastTime # None /\ lastTime[1].inst > 0 /\ lastTime[1].off = 1 /\ tz = 0

\* C12 as stated: whenever no refresh is in progress the persisted blob is the
\* pair (reading, time) of the most recent successful fetch.  Stated right after
\* a refresh that returned its fresh reading.  Fails when the write raised.
C12_StoreIsLatestFetch_AsStated ==
  (pc = "idle" /\ ev.op = "refresh" /\ ev.kind = "fresh" /\ lastFetch # None)
    => store = GoodBlob(lastFetch[1].data, lastFetch[1].time)

\* C12 amended: whenever no refresh is in progress and the write of the most
\* recent successful fetch has completed, the persisted blob is the pair
\* (reading, time) of that fetch; a write that fails leaves the older blob.
C12_StoreIsLatestFetch ==
  (pc = "idle" /\ lastFetch # None /\ writeOk)
    => store = GoodBlob(lastFetch[1].data, lastFetch[1].time)

\* C12 witness: a completed write has replaced the blob by the latest fetch, a
\* non-empty reading taken at a later instant.
C12_Witness ==
  /\ pc = "idle" /\ ev.op = "refresh" /\ ev.save = "ok" /\ writeOk
  /\ lastFetch # None /\ lastFetch[1].data = FullReading /\ lastFetch[1].time.inst > 0
  /\ store = GoodBlob(FullReading, lastFetch[1].time)

\* C13: in every reachable state lastValidReading and lastValidTime are both
\* absent or both present.
C13_BothOrNeither == (lastData = None) <=> (lastTime = None)

\* C14: a startup refresh that fails while a non-empty reading is persisted
\* returns a substitute: the setup is not given up with UpdateFailed.
C14_StartupUsesPersisted ==
  (ev.op = "refresh" /\ ~ev.fetched /\ StoredReading) => host # "aborted"

\* C15: loadPersisted on a fresh coordinator over malformed content (missing or
\* non-object data, missing, empty or unparseable timestamp) leaves
\* lastValidReading and lastValidTime both absent.
C15_MalformedLeavesCacheEmpty ==
  (LoadedContent /\ ev.fresh /\ ev.read[1].blob \in BadStores)
    => (lastData = None /\ lastTime = None)

\* C16: every refresh ends by returning the fresh reading, by returning a
\* substitute or by raising UpdateFailed; no other exception escapes.
C16_ThreeOutcomes ==
  ev.op = "refresh" => ev.kind \in {"fresh", "substitute", "zero", "raise"}

\* C17: updateInterval(v) sets baseInterval = v and currentInterval = v in one
\* step, from any state, a backed-off one included.
C17_UpdateSetsBoth == ev.op = "update" => (base = ev.arg /\ cur = ev.arg)

\* C17 witness: an update to 240 s has just replaced an interval that backoff
\* had raised from 10 s to 40 s.
C17_Witness ==
  ev.op = "update" /\ ev.prevCur = 40 /\ ev.arg = 240 /\ base = 240

\* C18: no two executions of refresh of one coordinator overlap.
C18_NoOverlap == ~(pc # "idle" /\ pc2 # "idle")

\* C19: shutdown is idempotent; the handle that deregisters the options listener
\* is called once, however often shutdown is called.
C19_UnsubscribedOnce == unsubCalls <= 1

\* C20: the backoff step of a failed refresh does not depend on the
\* substitution decision: whatever the refresh hands back, currentInterval is
\* doubled up to 5 minutes from a value below 5 minutes and kept otherwise.
C20_BackoffIndependent ==
  JustFailed =>
    cur = (IF ev.prevCur >= Ceiling THEN ev.prevCur ELSE Min(2 * ev.prevCur, Ceiling))

\* C20 witness: a failure that returned a same-day substitute has doubled the
\* interval.
C20_Witness ==
  JustFailed /\ ev.kind = "substitute" /\ ev.prevCur < Ceiling /\ cur = 2 * ev.prevCur

\* What a timeout of the fetch leaves in the state at hand: the interval after
\* the backoff step and the result of the substitution decision.
LikeTimeout ==
  [cur |-> (IF cur >= Ceiling THEN cur ELSE Min(2 * cur, Ceiling)),
   res |-> FailureResult(lastData, lastTime, Now)]

\* C21: a 2xx response whose payload is no JSON object is handled like a timeout
\* or a connection error in the same state: same new currentInterval, same
\* result, and neither the cache nor the persisted blob takes the payload.
C21_InvalidPayloadLikeTimeout ==
  [][(pc = "fetch" /\ pc' = "idle" /\ ev'.err = "not_a_dict")
       => /\ cur' = LikeTimeout.cur
          /\ ev'.kind = LikeTimeout.res.kind /\ ev'.data = LikeTimeout.res.data
          /\ UNCHANGED << base, lastData, lastTime, store >>]_vars

\* C21 witness: a payload that is no object has just been answered with the
\* same-day substitute and a doubled interval.
C21_Witness ==
  /\ FetchJustFailed /\ ev.err = "not_a_dict" /\ ev.kind = "substitute"
  /\ cur = 2 * ev.prevCur /\ NonEmptyCache

\* C22: a refresh that ends on the failure path has issued no persistence
\* write.
C22_FailedRefreshWritesNothing == JustFailed => ev.save = "none"

\* C23: right after construction currentInterval = baseInterval = the scan
\* interval of the entry as it is then, the one in the options before the one
\* in the data.
C23_InitialInterval ==
  ev.op \in {"init", "construct"} =>
    /\ cur = base
    /\ base = (IF ev.entry.options # None THEN ev.entry.options[1] ELSE ev.entry.data)

\* C23 witness: a coordinator constructed anew for an entry whose options and
\* data carry different scan intervals, after the old one ran at another.
C23_Witness ==
  /\ ev.op = "construct" /\ ev.entry.options # None
  /\ ev.entry.options[1] # ev.entry.data /\ cur = ev.entry.options[1]
  /\ ev.prevCur # cur

\* C24: a refresh that ends on the failure path leaves lastValidReading,
\* lastValidTime and the persisted blob as they were when it started.
C24_FailureLeavesCache ==
  (JustFailed /\ ev.began # None)
    => /\ lastData = ev.began[1].data
       /\ lastTime = ev.began[1].time
       /\ store = ev.began[1].store

\* C25: when updateInterval(v) runs while a refresh is suspended, after both
\* baseInterval = v, and currentInterval = v if the refresh succeeded, or
\* min(2v, 5 minutes), v itself from 5 minutes on, if it failed.
C25_UpdateDuringRefresh ==
  (ev.op = "refresh" /\ ev.began # None /\ ev.began[1].upd # None)
    => LET v == ev.began[1].upd[1]
       IN  /\ base = v
           /\ cur = (IF ev.kind = "fresh" THEN v
                     ELSE IF v >= Ceiling THEN v ELSE Min(2 * v, Ceiling))

\* C25 witness: a refresh has failed after an update to 240 s came in while it
\* was suspended; the interval is 300 s.
C25_Witness ==
  /\ JustFailed /\ ev.began # None /\ ev.began[1].upd = Some(240)
  /\ base = 240 /\ cur = Ceiling

\* The cache holds the device's latest reading and the interval is the base one.
Recovered ==
  /\ cur = base
  /\ lastFetch # None /\ lastData = Some(Obj(lastFetch[1].data))

\* C26: if fetches eventually always succeed, then under fair scheduling the
\* coordinator eventually has currentInterval = baseInterval and the device's
\* latest reading as lastValidReading, and keeps them.
C26_Recovery == (<>[](~FetchJustFailed)) => <>[]Recovered

\* C27: a lastValidTime reloaded from persistence in another UTC offset than
\* the current one counts as same-day exactly when its instant, in local time,
\* falls on today's local date.  Stated where no reading was fetched, so that
\* the cache is the reloaded one.
C27_SameDayInLocalTime ==
  (FetchJustFailed /\ lastFetch = None /\ NonEmptyCache /\ lastTime # None
     /\ lastTime[1].off # tz)
    => ((ev.kind = "substitute") <=> ((lastTime[1].inst + tz) \div DayLen = DateOf(Now)))

\* C28: with a non-empty lastValidReading and no lastValidTime a failed refresh
\* returns the all-zero substitute over the cached keys, never the same-day
\* substitute and never UpdateFailed.
C28_NoTimeIsStale ==
  (JustFailed /\ NonEmptyCache /\ lastTime = None)
    => (ev.kind = "zero" /\ ev.data # None /\ IsAllZero(ev.data[1], lastData[1].map))

\* C28 witness: a failed refresh over a reading that was loaded without a time.
C28_Witness ==
  /\ JustFailed /\ NonEmptyCache /\ lastTime = None
  /\ DOMAIN lastData[1].map = Keys /\ ev.kind = "zero"

\* C29: once a setup attempt or an unload has ended, the options listener is
\* registered exactly when the coordinator is held in the registry; a discarded
\* coordinator leaves no listener.
C29_NoLeakedListener ==
  host \in {"loaded", "failed", "aborted", "unloaded"}
    => (listening <=> host \in {"loaded", "failed"})

\* C30: unload drops the coordinator from the registry and shuts it down exactly
\* when the platform unload succeeded; otherwise the coordinator stays
\* registered, is not shut down, and unload reports the failure.
C30_UnloadIffPlatformsUnloaded ==
  ev.op = "unload" =>
    IF ev.kind = "ok"
      THEN host = "unloaded" /\ ~listening /\ unsubCalls = 1
      ELSE ev.kind = "failed" /\ host = "loaded" /\ listening /\ unsubCalls = 0

\* C30 witness: a platform unload has failed and the coordinator, with its
\* cache, is still in the registry.
C30_Witness ==
  /\ ev.op = "unload" /\ ev.kind = "failed"
  /\ host = "loaded" /\ listening /\ NonEmptyCache

\* C31: after any sequence of user and reconfigure flows no two config entries
\* target the same IP address.
C31_OneEntryPerAddress ==
  \A a \in flowEntries, b \in flowEntries : a.ip = b.ip => a = b

====
